---- MODULE Spec2Model ----
(***************************************************************************)
(* Goql: a chain of Queryable stages (FromArray leaf, optionally wrapped   *)
(* by Select / SelectMany stages), each executed by Run as one errgroup of *)
(* producer, supervisory and worker goroutines plus a finalizer goroutine, *)
(* and drained by a terminal collector (ToArray, Reduce or GroupBy).       *)
(*                                                                         *)
(* Stage 1 is the leaf; the parent of stage s > 1 is stage s - 1; the      *)
(* outermost stage is Depth.  Every goroutine advances by one channel      *)
(* operation (or one select) per step.  An unbuffered channel is a         *)
(* rendezvous of the sending and the receiving goroutine.                  *)
(***************************************************************************)
EXTENDS Bags, FiniteSets, Integers, Sequences, TLC

\* Bounds of the model.
MaxDepth == 2
MaxThreads == 2
MaxLen == 2
MaxWorkers == 3

\* Input items.  0 makes 1/i and 2/i fault, 1 is odd, 2 is even.
Values == {0, 1, 2}

\* Limits of WithThreads.
MinThreadLimit == 1
MaxThreadLimit == 128

VARIABLES
    q,            \* the Queryable structs, q[1] the leaf, q[Len(q)] the outermost
    callerCtx,    \* the caller's context: done, and whether it was cancelled before ToArray saw outputChan closed (history)
    eg,           \* per stage: the errgroup of its Run (first error, derived ctx cancelled)
    failLog,      \* per stage: errors returned by the group's goroutines, in order (history)
    producer,     \* the leaf's producer goroutine
    inputChan,    \* the leaf's input channel made from inputData
    supervisor,   \* per stage: the goroutine calling parent.Wait
    worker,       \* per stage, per thread: the filter/map goroutine
    finalizer,    \* per stage: the goroutine that waits for the group and closes the channels
    errorChan,    \* per stage: the channel q.errorChan made by Run (capacity 1)
    sinkLog,      \* per stage: every value ever sent on errorChan (history)
    outputClosed, \* per stage: outputChan is closed
    delivered,    \* per stage: bag of the items received from outputChan (history)
    collector,    \* the goroutine running the terminal collector on the outermost stage
    build,        \* the construction of the chain: NumCPU of the machine, the builder calls made
    order         \* one call of OrderBy: its arguments and its result

vars == <<q, callerCtx, eg, failLog, producer, inputChan, supervisor, worker,
          finalizer, errorChan, sinkLog, outputClosed, delivered, collector,
          build, order>>

----------------------------------------------------------------------------
\* Errors.

Nil == <<"nil">>
Canceled == <<"context canceled">>
PanicErr(s, i) == <<"panic while filtering/mapping", s, i>>

----------------------------------------------------------------------------
\* Callbacks supplied by the caller.

\* The filter faults at run time on x (1/i with i = 0).
FilterPanics(f, x) == f = "inv" /\ x = 0

FilterFn(f, x) ==
    CASE f = "pos"  -> x > 0
      [] f = "inv"  -> (1 \div x) = 1

\* The map function faults at run time on x (2/i with i = 0).
MapPanics(m, x) == m = "div" /\ x = 0

MapFn(m, x) ==
    CASE m = "id"   -> <<x>>
      [] m = "div"  -> <<2 \div x>>
      [] m = "rep"  -> IF x % 2 = 0 THEN <<>> ELSE <<x, x + 1>>

----------------------------------------------------------------------------
\* Construction.

Min(a, b) == IF a < b THEN a ELSE b
Max(a, b) == IF a > b THEN a ELSE b

DefaultThreads(numCPU) == Max(Min(1, numCPU), 128)

Slice(elems) == [isNil |-> FALSE, elems |-> elems]
NilSlice == [isNil |-> TRUE, elems |-> <<>>]

FromArray(inputData, numCPU) ==
    [parent |-> 0, inputData |-> inputData, inputChan |-> "nil", errorChan |-> "nil",
     fnFilter |-> <<>>, fnMap |-> "id", threads |-> DefaultThreads(numCPU)]

FromChan(ch, numCPU) ==
    [parent |-> 0, inputData |-> NilSlice, inputChan |-> ch, errorChan |-> "nil",
     fnFilter |-> <<>>, fnMap |-> "id", threads |-> DefaultThreads(numCPU)]

Select(fnMap, parent, numCPU) ==
    [parent |-> parent, inputData |-> NilSlice, inputChan |-> "nil", errorChan |-> "nil",
     fnFilter |-> <<>>, fnMap |-> fnMap, threads |-> DefaultThreads(numCPU)]

SelectMany(fnMap, parent, numCPU) ==
    [parent |-> parent, inputData |-> NilSlice, inputChan |-> "nil", errorChan |-> "nil",
     fnFilter |-> <<>>, fnMap |-> fnMap, threads |-> DefaultThreads(numCPU)]

Where(stage, fn) == [stage EXCEPT !.fnFilter = Append(@, fn)]

ThreadsPanicsLax(threads) == (threads < 0) \/ (threads > MaxThreadLimit)

ThreadsPanics(threads) == (threads < MinThreadLimit) \/ (threads > MaxThreadLimit)

WithThreads(stage, threads) ==
    IF ThreadsPanics(threads) THEN stage ELSE [stage EXCEPT !.threads = threads]

RECURSIVE WhereAll(_, _)
WhereAll(stage, fns) ==
    IF fns = <<>> THEN stage ELSE WhereAll(Where(stage, Head(fns)), Tail(fns))

----------------------------------------------------------------------------
\* Orderable: comparator specifications and the sort of ToArray.

\* The key extractors supplied by the caller.
KeyOf(keyGetter, x) ==
    CASE keyGetter = "self" -> x
      [] keyGetter = "mod2" -> x % 2

OrderAsc(keyGetter) == [keyGetter |-> keyGetter, desc |-> FALSE]
OrderDesc(keyGetter) == [keyGetter |-> keyGetter, desc |-> TRUE]

\* cmp.Compare
Compare(x, y) == IF x < y THEN -1 ELSE IF x > y THEN 1 ELSE 0

\* A comparison that ignores the direction of the specification.
GetOrderFnAscOnly(o, a, b) == Compare(KeyOf(o.keyGetter, a), KeyOf(o.keyGetter, b))

GetOrderFn(o, a, b) ==
    LET akey == KeyOf(o.keyGetter, a)
        bkey == KeyOf(o.keyGetter, b)
    IN  IF o.desc THEN Compare(bkey, akey) ELSE Compare(akey, bkey)

RECURSIVE GetOrderByFunc(_, _, _)
GetOrderByFunc(orderables, a, b) ==
    IF orderables = <<>> THEN 0
    ELSE LET c == GetOrderFn(Head(orderables), a, b) IN
         IF c # 0 THEN c ELSE GetOrderByFunc(Tail(orderables), a, b)

\* slices.SortFunc on a slice shorter than 12 elements is an insertion sort:
\* each element moves left while it compares less than its left neighbour.
RECURSIVE Insert(_, _, _)
Insert(sorted, x, orderables) ==
    IF sorted = <<>> THEN <<x>>
    ELSE LET n == Len(sorted) IN
         IF GetOrderByFunc(orderables, x, sorted[n]) < 0
         THEN Append(Insert(SubSeq(sorted, 1, n - 1), x, orderables), sorted[n])
         ELSE Append(sorted, x)

RECURSIVE SortFunc(_, _)
SortFunc(data, orderables) ==
    IF data = <<>> THEN <<>>
    ELSE LET n == Len(data) IN
         Insert(SortFunc(SubSeq(data, 1, n - 1), orderables), data[n], orderables)

OrderBy(data, orderables) ==
    IF Len(orderables) > 0 /\ Len(data) > 0 THEN SortFunc(data, orderables) ELSE data

----------------------------------------------------------------------------
\* What the terminal collectors fold the delivered items into.

\* ToArray: output = append(output, data)
CollectPrepend(output, data) == <<data>> \o output
Collect(output, data) == Append(output, data)

\* The callbacks and the seed given to Reduce.
ReduceStart == 0
FnReduce(i, a) == i + a

\* Reduce: output = fnReduce(data, output)
ReduceFoldFromStart(output, data) == FnReduce(data, ReduceStart)
ReduceFold(output, data) == FnReduce(data, output)

\* The callbacks given to GroupBy.
KeyGetter(i) == i % 2
ValueGetter(i) == i

\* GroupBy: output := map[TKey][]TValue{}
EmptyMap == [key \in {} |-> <<>>]

\* GroupBy: output[key] = append(output[key], value)
GroupByAddOverwrite(output, data) ==
    LET key == KeyGetter(data)
        value == ValueGetter(data)
    IN  [k \in DOMAIN output \cup {key} |-> IF k = key THEN <<value>> ELSE output[k]]
GroupByAdd(output, data) ==
    LET key == KeyGetter(data)
        value == ValueGetter(data)
    IN  [k \in DOMAIN output \cup {key} |->
            IF k # key THEN output[k]
            ELSE IF key \in DOMAIN output THEN Append(output[key], value)
            ELSE <<value>>]

----------------------------------------------------------------------------
\* The pipelines the model runs.
SeqsUpTo(S, n) == UNION {[1..k -> S] : k \in 0..n}
Slices == {NilSlice} \cup {Slice(e) : e \in SeqsUpTo(Values, MaxLen)}
LeafFilters == {<<>>, <<"inv">>, <<"pos", "inv">>}
DerivedFilters == {<<>>}
SelectFns == {"div"}
SelectManyFns == {"rep"}


Leaves ==
    {WithThreads(WhereAll(FromArray(d, 1), fs), n) :
        d \in Slices, fs \in LeafFilters, n \in 1..MaxThreads}

\* A derived stage is configured by WithThreads or left with the worker count
\* its factory gave it.
Derived(parent) ==
    {WithThreads(WhereAll(Select(m, parent, 1), fs), n) :
        m \in SelectFns, fs \in DerivedFilters, n \in 1..MaxThreads}
    \cup
    {WithThreads(WhereAll(SelectMany(m, parent, 1), fs), n) :
        m \in SelectManyFns, fs \in DerivedFilters, n \in 1..MaxThreads}
    \cup
    {WhereAll(Select(m, parent, 1), fs) :
        m \in SelectFns, fs \in DerivedFilters}

RECURSIVE Chains(_)
Chains(d) ==
    IF d = 1 THEN {<<l>> : l \in Leaves}
    ELSE {Append(c, n) : c \in Chains(d - 1), n \in Derived(d - 1)}

\* The workers of a stage the model schedules: of the stage.threads workers
\* started by Run, those beyond MaxThreads never win a receive and return as
\* soon as their input is closed or their context is done.
Scheduled(stage) == Min(stage.threads, MaxThreads)

RECURSIVE SumThreads(_)
SumThreads(chain) ==
    IF chain = <<>> THEN 0 ELSE Scheduled(Head(chain)) + SumThreads(Tail(chain))

Pipelines == {c \in UNION {Chains(d) : d \in 1..MaxDepth} : SumThreads(c) <= MaxWorkers}

Depth == Len(q)
Stages == 1..Depth
Threads(s) == 1..Scheduled(q[s])

----------------------------------------------------------------------------
\* Context and errgroup.

\* ctx.Done() of the caller's context.
callerDone == callerCtx.done

\* ctx.Done() of the context derived by stage s's errgroup.WithContext: the ctx
\* handed to Run(s) is the caller's for the outermost stage and the child's
\* derived ctx for a parent.
Done(s) == callerDone \/ \E t \in s..Depth : eg[t].cancelled

\* A goroutine of the group returned err: only the last error is kept.
EgDoneLastWins(g, err) ==
    IF err # Nil THEN [err |-> err, cancelled |-> TRUE] ELSE g

\* A goroutine of the group returned err: errOnce keeps the first non-nil
\* error and cancels the derived ctx.
EgDone(g, err) ==
    IF err # Nil /\ g.err = Nil THEN [err |-> err, cancelled |-> TRUE] ELSE g

Returned(s, err) ==
    /\ eg' = [eg EXCEPT ![s] = EgDone(@, err)]
    /\ failLog' = [failLog EXCEPT ![s] = IF err # Nil THEN Append(@, err) ELSE @]

----------------------------------------------------------------------------
\* The worker's body for one received item.

\* An item is mapped as soon as one filter accepts it.
RECURSIVE ShouldMapAny(_, _)
ShouldMapAny(fnFilter, x) ==
    IF fnFilter = <<>> THEN "true"
    ELSE IF FilterPanics(Head(fnFilter), x) THEN "panic"
    ELSE IF FilterFn(Head(fnFilter), x) THEN "true"
    ELSE IF Tail(fnFilter) = <<>> THEN "false"
    ELSE ShouldMapAny(Tail(fnFilter), x)

\* for _, fnFilter := range q.fnFilter: the first filter that rejects breaks
\* the loop.
RECURSIVE ShouldMap(_, _)
ShouldMap(fnFilter, x) ==
    IF fnFilter = <<>> THEN "true"
    ELSE IF FilterPanics(Head(fnFilter), x) THEN "panic"
    ELSE IF ~FilterFn(Head(fnFilter), x) THEN "false"
    ELSE ShouldMap(Tail(fnFilter), x)

WorkerStep(stage, x) ==
    LET sm == ShouldMap(stage.fnFilter, x) IN
    IF sm = "panic" THEN [panic |-> TRUE, items |-> <<>>]
    ELSE IF sm = "false" THEN [panic |-> FALSE, items |-> <<>>]
    ELSE IF MapPanics(stage.fnMap, x) THEN [panic |-> TRUE, items |-> <<>>]
    ELSE [panic |-> FALSE, items |-> MapFn(stage.fnMap, x)]

\* The worker after it received x: recovered from a fault and returned, back
\* at the select, or about to send the first mapped item.
Received(s, x) ==
    LET r == WorkerStep(q[s], x) IN
    IF r.panic THEN [pc |-> "done", items |-> <<>>]
    ELSE IF r.items = <<>> THEN [pc |-> "select", items |-> <<>>]
    ELSE [pc |-> "send", items |-> r.items]

ReceivedErr(s, i, x) == IF WorkerStep(q[s], x).panic THEN PanicErr(s, i) ELSE Nil

\* The sender after one of its items was taken from outputChan.
Sent(w) ==
    IF Len(w.items) = 1 THEN [pc |-> "select", items |-> <<>>]
    ELSE [pc |-> "send", items |-> Tail(w.items)]

----------------------------------------------------------------------------
\* No builder call was made and no OrderBy is in progress.
NoCall == [op |-> "none", arg |-> 0, before |-> 0]
NoOrder == [pc |-> "idle", data |-> <<>>, orderables |-> <<>>, result |-> <<>>]

\* No collector was called yet: no goroutine of the chain q exists.  The
\* collector is called without comparator specifications.
NotStarted ==
    /\ callerCtx = [done |-> FALSE, beforeDrained |-> FALSE]
    /\ eg = [s \in Stages |-> [err |-> Nil, cancelled |-> FALSE]]
    /\ failLog = [s \in Stages |-> <<>>]
    /\ producer = [pc |-> "off", i |-> 0]
    /\ inputChan = [made |-> FALSE, buf |-> <<>>, closed |-> FALSE]
    /\ supervisor = [s \in Stages |-> [pc |-> "off", ch |-> "nil"]]
    /\ worker = [s \in Stages |-> [i \in Threads(s) |-> [pc |-> "off", items |-> <<>>]]]
    /\ finalizer = [s \in Stages |-> "off"]
    /\ errorChan = [s \in Stages |-> [buf |-> <<>>, closed |-> FALSE]]
    /\ sinkLog = [s \in Stages |-> <<>>]
    /\ outputClosed = [s \in Stages |-> FALSE]
    /\ delivered = [s \in Stages |-> EmptyBag]
    /\ collector = [pc |-> "run", level |-> Depth, output |-> <<>>,
                    acc |-> ReduceStart, groups |-> EmptyMap, orderables |-> <<>>,
                    data |-> NilSlice, reduced |-> ReduceStart, grouped |-> EmptyMap,
                    err |-> Nil]

\* The chain was built on a machine with one CPU and a collector is called.
Init ==
    /\ q \in Pipelines
    /\ build = [pc |-> "built", numCPU |-> 1,
                withThreads |-> {s \in Stages : q[s].threads # DefaultThreads(1)},
                last |-> NoCall]
    /\ order = NoOrder
    /\ NotStarted

----------------------------------------------------------------------------
\* The caller cancels its context (or its deadline passes).
Cancel ==
    /\ ~callerDone
    /\ callerCtx' = [done |-> TRUE, beforeDrained |-> collector.pc \in {"run", "drain"}]
    /\ UNCHANGED <<build, order, q, eg, failLog, producer, inputChan, supervisor, worker, finalizer,
                   errorChan, sinkLog, outputClosed, delivered, collector>>

\* Run of stage s up to its call of parent.Run: makes the channels, starts the
\* producer or the supervisory goroutine.  Run of the leaf has no parent to
\* call: it and the pending Runs of its descendants start their workers and
\* finalizers and return, and ToArray begins to drain.
Run(s) ==
    /\ collector.pc = "run"
    /\ collector.level = s
    /\ q' = [t \in Stages |->
               IF t = s
               THEN [q[t] EXCEPT !.errorChan = "chan",
                                 !.inputChan = IF q[s].inputData.isNil THEN @ ELSE "chan"]
               ELSE IF q[s].parent = 0 THEN [q[t] EXCEPT !.inputChan = "chan"]
               ELSE q[t]]
    /\ IF ~q[s].inputData.isNil
       THEN /\ inputChan' = [made |-> TRUE, buf |-> <<>>, closed |-> FALSE]
            /\ producer' = [pc |-> "run", i |-> 0]
       ELSE UNCHANGED <<inputChan, producer>>
    /\ IF q[s].parent # 0
       THEN /\ supervisor' = [supervisor EXCEPT ![s].pc = "enter"]
            /\ collector' = [collector EXCEPT !.level = s - 1]
            /\ UNCHANGED <<worker, finalizer>>
       ELSE /\ worker' = [t \in Stages |-> [i \in Threads(t) |-> [pc |-> "select", items |-> <<>>]]]
            /\ finalizer' = [t \in Stages |-> "wait"]
            /\ collector' = [collector EXCEPT !.pc = "drain", !.level = 0]
            /\ UNCHANGED supervisor
    /\ UNCHANGED <<build, order, callerCtx, eg, failLog, errorChan, sinkLog, outputClosed,
                   delivered>>

----------------------------------------------------------------------------
\* Producer of the leaf.

ProducerSend ==
    /\ producer.pc = "run"
    /\ producer.i < Len(q[1].inputData.elems)
    /\ inputChan' = [inputChan EXCEPT !.buf = Append(@, q[1].inputData.elems[producer.i + 1])]
    /\ producer' = [producer EXCEPT !.i = @ + 1]
    /\ UNCHANGED <<build, order, q, callerCtx, eg, failLog, supervisor, worker, finalizer, errorChan,
                   sinkLog, outputClosed, delivered, collector>>

ProducerCancel ==
    /\ producer.pc = "run"
    /\ producer.i < Len(q[1].inputData.elems)
    /\ Done(1)
    /\ inputChan' = [inputChan EXCEPT !.closed = TRUE]
    /\ producer' = [producer EXCEPT !.pc = "done"]
    /\ Returned(1, Canceled)
    /\ UNCHANGED <<build, order, q, callerCtx, supervisor, worker, finalizer, errorChan,
                   sinkLog, outputClosed, delivered, collector>>

ProducerReturn ==
    /\ producer.pc = "run"
    /\ producer.i = Len(q[1].inputData.elems)
    /\ inputChan' = [inputChan EXCEPT !.closed = TRUE]
    /\ producer' = [producer EXCEPT !.pc = "done"]
    /\ Returned(1, Nil)
    /\ UNCHANGED <<build, order, q, callerCtx, supervisor, worker, finalizer, errorChan,
                   sinkLog, outputClosed, delivered, collector>>

----------------------------------------------------------------------------
\* Supervisory goroutine of stage s: err := q.parent.Wait(ctx).

\* Wait enters its select: the channel operand q.parent.errorChan is read now.
SupervisorEnter(s) ==
    /\ supervisor[s].pc = "enter"
    /\ supervisor' = [supervisor EXCEPT ![s] = [pc |-> "select", ch |-> q[s - 1].errorChan]]
    /\ UNCHANGED <<build, order, q, callerCtx, eg, failLog, producer, inputChan, worker, finalizer,
                   errorChan, sinkLog, outputClosed, delivered, collector>>

SupervisorCancel(s) ==
    /\ supervisor[s].pc = "select"
    /\ Done(s)
    /\ supervisor' = [supervisor EXCEPT ![s].pc = "done"]
    /\ Returned(s, Canceled)
    /\ UNCHANGED <<build, order, q, callerCtx, producer, inputChan, worker, finalizer,
                   errorChan, sinkLog, outputClosed, delivered, collector>>

SupervisorRecv(s) ==
    /\ supervisor[s].pc = "select"
    /\ supervisor[s].ch = "chan"
    /\ \/ /\ errorChan[s - 1].buf # <<>>
          /\ errorChan' = [errorChan EXCEPT ![s - 1].buf = Tail(@)]
          /\ Returned(s, Head(errorChan[s - 1].buf))
       \/ /\ errorChan[s - 1].buf = <<>>
          /\ errorChan[s - 1].closed
          /\ UNCHANGED errorChan
          /\ Returned(s, Nil)
    /\ supervisor' = [supervisor EXCEPT ![s].pc = "done"]
    /\ UNCHANGED <<build, order, q, callerCtx, producer, inputChan, worker, finalizer,
                   sinkLog, outputClosed, delivered, collector>>

----------------------------------------------------------------------------
\* Worker i of stage s.

\* The input channel of stage s can deliver no more: it is closed and empty.
InputClosed(s) ==
    IF q[s].parent = 0
    THEN inputChan.made /\ inputChan.closed /\ inputChan.buf = <<>>
    ELSE outputClosed[s - 1]

\* case <-ctx.Done(): return ctx.Err()
WorkerCancel(s, i) ==
    /\ worker[s][i].pc = "select"
    /\ Done(s)
    /\ worker' = [worker EXCEPT ![s][i].pc = "done"]
    /\ Returned(s, Canceled)
    /\ UNCHANGED <<build, order, q, callerCtx, producer, inputChan, supervisor, finalizer,
                   errorChan, sinkLog, outputClosed, delivered, collector>>

\* case data, ok := <-q.inputChan with !ok: return nil
WorkerInputClosed(s, i) ==
    /\ worker[s][i].pc = "select"
    /\ InputClosed(s)
    /\ worker' = [worker EXCEPT ![s][i].pc = "done"]
    /\ Returned(s, Nil)
    /\ UNCHANGED <<build, order, q, callerCtx, producer, inputChan, supervisor, finalizer,
                   errorChan, sinkLog, outputClosed, delivered, collector>>

\* A worker of the leaf takes the next item of the buffered input channel,
\* filters and maps it.
WorkerRecvInput(i) ==
    /\ q[1].parent = 0
    /\ worker[1][i].pc = "select"
    /\ inputChan.made
    /\ inputChan.buf # <<>>
    /\ LET x == Head(inputChan.buf) IN
         /\ worker' = [worker EXCEPT ![1][i] = Received(1, x)]
         /\ Returned(1, ReceivedErr(1, i, x))
    /\ inputChan' = [inputChan EXCEPT !.buf = Tail(@)]
    /\ UNCHANGED <<build, order, q, callerCtx, producer, supervisor, finalizer,
                   errorChan, sinkLog, outputClosed, delivered, collector>>

\* Worker i of stage s takes the item that worker j of the parent is sending
\* on the parent's unbuffered outputChan (outputChan <- item has no select),
\* filters and maps it.
WorkerRecvParent(s, i, j) ==
    /\ q[s].parent # 0
    /\ worker[s][i].pc = "select"
    /\ worker[s - 1][j].pc = "send"
    /\ LET x == Head(worker[s - 1][j].items) IN
         /\ worker' = [worker EXCEPT ![s - 1][j] = Sent(@), ![s][i] = Received(s, x)]
         /\ Returned(s, ReceivedErr(s, i, x))
         /\ delivered' = [delivered EXCEPT ![s - 1] = @ (+) SetToBag({x})]
    /\ UNCHANGED <<build, order, q, callerCtx, producer, inputChan, supervisor, finalizer,
                   errorChan, sinkLog, outputClosed, collector>>

----------------------------------------------------------------------------
\* Finalizer of stage s.

\* Some worker started with eg.Go has returned.
GroupIdleAnyWorker(s) ==
    \E i \in Threads(s) : worker[s][i].pc = "done"

\* Every goroutine started with eg.Go has returned.
GroupIdle(s) ==
    /\ producer.pc \in {"off", "done"} \/ s # 1
    /\ supervisor[s].pc \in {"off", "done"}
    /\ \A i \in Threads(s) : worker[s][i].pc = "done"

\* The order in which the deferred closes would run were defers first-in first-out.
DeferredClosesFifo == <<"outputChan", "errorChan">>

\* The order in which the deferred closes run: last deferred, first run.
DeferredCloses == <<"errorChan", "outputChan">>

\* err := eg.Wait() returns (and cancels the derived ctx); a non-nil err is
\* sent on the error channel, whose one slot is free.
FinalizerWait(s) ==
    /\ finalizer[s] = "wait"
    /\ GroupIdle(s)
    /\ eg[s].err # Nil => Len(errorChan[s].buf) < 1
    /\ eg' = [eg EXCEPT ![s].cancelled = TRUE]
    /\ IF eg[s].err # Nil
       THEN /\ errorChan' = [errorChan EXCEPT ![s].buf = Append(@, eg[s].err)]
            /\ sinkLog' = [sinkLog EXCEPT ![s] = Append(@, eg[s].err)]
       ELSE UNCHANGED <<errorChan, sinkLog>>
    /\ finalizer' = [finalizer EXCEPT ![s] = "defer1"]
    /\ UNCHANGED <<build, order, q, callerCtx, failLog, producer, inputChan, supervisor, worker,
                   outputClosed, delivered, collector>>

\* The deferred closes run, one per step.
FinalizerClose(s) ==
    /\ finalizer[s] \in {"defer1", "defer2"}
    /\ LET c == DeferredCloses[IF finalizer[s] = "defer1" THEN 1 ELSE 2] IN
         IF c = "errorChan"
         THEN /\ errorChan' = [errorChan EXCEPT ![s].closed = TRUE]
              /\ UNCHANGED outputClosed
         ELSE /\ outputClosed' = [outputClosed EXCEPT ![s] = TRUE]
              /\ UNCHANGED errorChan
    /\ finalizer' = [finalizer EXCEPT ![s] = IF @ = "defer1" THEN "defer2" ELSE "done"]
    /\ UNCHANGED <<build, order, q, callerCtx, eg, failLog, producer, inputChan, supervisor, worker,
                   sinkLog, delivered, collector>>

----------------------------------------------------------------------------
\* The terminal collector on the outermost stage.  ToArray, Reduce and GroupBy
\* run the same loop (Run, for data := range outputChan, Wait) and differ in
\* what they fold the items into and in what they return: the collector
\* record carries the accumulator and the result of each of the three.

CollectorRecv(j) ==
    /\ collector.pc = "drain"
    /\ worker[Depth][j].pc = "send"
    /\ LET x == Head(worker[Depth][j].items) IN
         /\ collector' = [collector EXCEPT !.output = Collect(@, x),
                                           !.acc = ReduceFold(@, x),
                                           !.groups = GroupByAdd(@, x)]
         /\ delivered' = [delivered EXCEPT ![Depth] = @ (+) SetToBag({x})]
    /\ worker' = [worker EXCEPT ![Depth][j] = Sent(@)]
    /\ UNCHANGED <<build, order, q, callerCtx, eg, failLog, producer, inputChan, supervisor,
                   finalizer, errorChan, sinkLog, outputClosed>>

CollectorClosed ==
    /\ collector.pc = "drain"
    /\ outputClosed[Depth]
    /\ collector' = [collector EXCEPT !.pc = "wait"]
    /\ UNCHANGED <<build, order, q, callerCtx, eg, failLog, producer, inputChan, supervisor, worker,
                   finalizer, errorChan, sinkLog, outputClosed, delivered>>

\* What ToArray returns once Wait returned err.
ToArrayReturn(c, err) ==
    [c EXCEPT !.pc = "done", !.err = err,
              !.data = IF err # Nil THEN NilSlice
                       ELSE Slice(OrderBy(c.output, c.orderables))]

\* What Reduce returns once Wait returned err: return output, err
ReduceReturnStartOnError(output, err) == IF err # Nil THEN ReduceStart ELSE output
ReduceReturn(output, err) == output

\* What GroupBy returns once Wait returned err: return output, err
GroupByReturn(output, err) == output

\* The three collectors return.
Return(c, err) ==
    [ToArrayReturn(c, err) EXCEPT !.reduced = ReduceReturn(c.acc, err),
                                  !.grouped = GroupByReturn(c.groups, err)]

\* Wait, case <-ctx.Done(): return ctx.Err()
WaitCancel ==
    /\ collector.pc = "wait"
    /\ callerDone
    /\ collector' = Return(collector, Canceled)
    /\ UNCHANGED <<build, order, q, callerCtx, eg, failLog, producer, inputChan, supervisor, worker,
                   finalizer, errorChan, sinkLog, outputClosed, delivered>>

\* Wait, case err, ok := <-q.errorChan
WaitRecv ==
    /\ collector.pc = "wait"
    /\ q[Depth].errorChan = "chan"
    /\ \/ /\ errorChan[Depth].buf # <<>>
          /\ errorChan' = [errorChan EXCEPT ![Depth].buf = Tail(@)]
          /\ collector' = Return(collector, Head(errorChan[Depth].buf))
       \/ /\ errorChan[Depth].buf = <<>>
          /\ errorChan[Depth].closed
          /\ UNCHANGED errorChan
          /\ collector' = Return(collector, Nil)
    /\ UNCHANGED <<build, order, q, callerCtx, eg, failLog, producer, inputChan, supervisor, worker,
                   finalizer, sinkLog, outputClosed, delivered>>

----------------------------------------------------------------------------
\* One step of some goroutine of the program.
Step ==
    \/ \E s \in Stages : Run(s)
    \/ ProducerSend
    \/ ProducerCancel
    \/ ProducerReturn
    \/ \E s \in Stages : SupervisorEnter(s)
    \/ \E s \in Stages : SupervisorCancel(s)
    \/ \E s \in Stages : SupervisorRecv(s)
    \/ \E s \in Stages : \E i \in Threads(s) : WorkerCancel(s, i)
    \/ \E s \in Stages : \E i \in Threads(s) : WorkerInputClosed(s, i)
    \/ \E i \in Threads(1) : WorkerRecvInput(i)
    \/ \E s \in Stages \ {1} : \E i \in Threads(s) : \E j \in Threads(s - 1) :
          WorkerRecvParent(s, i, j)
    \/ \E s \in Stages : FinalizerWait(s)
    \/ \E s \in Stages : FinalizerClose(s)
    \/ \E j \in Threads(Depth) : CollectorRecv(j)
    \/ CollectorClosed
    \/ WaitCancel
    \/ WaitRecv

Next == Cancel \/ Step

Spec == Init /\ [][Next]_vars

\* The Go scheduler runs every runnable goroutine; the caller is free never
\* to cancel.
FairSpec == Spec /\ WF_vars(Step)

----------------------------------------------------------------------------
\* The ordering step of ToArray, applied to every delivery order and every
\* list of comparator specifications within the bounds.

MaxSortLen == 3
MaxSpecs == 2

KeyGetters == {"self", "mod2"}
Orderables == {OrderAsc(k) : k \in KeyGetters} \cup {OrderDesc(k) : k \in KeyGetters}

\* No chain is being built or run.
NoChain ==
    /\ q = <<>>
    /\ build = [pc |-> "building", numCPU |-> 1, withThreads |-> {}, last |-> NoCall]
    /\ NotStarted

OrderInit ==
    /\ NoChain
    /\ order \in {[pc |-> "call", data |-> d, orderables |-> o, result |-> <<>>] :
                    d \in SeqsUpTo(Values, MaxSortLen), o \in SeqsUpTo(Orderables, MaxSpecs)}

\* ToArray after a drain that delivered order.data and a Wait that returned
\* nil: OrderBy(output, orderables...); return output, nil
ToArraySorts ==
    /\ order.pc = "call"
    /\ order' = [order EXCEPT
                    !.pc = "done",
                    !.result = ToArrayReturn([collector EXCEPT !.output = order.data,
                                                               !.orderables = order.orderables],
                                             Nil).data.elems]
    /\ UNCHANGED <<q, callerCtx, eg, failLog, producer, inputChan, supervisor, worker,
                   finalizer, errorChan, sinkLog, outputClosed, delivered, collector,
                   build>>

OrderNext == ToArraySorts

OrderSpec == OrderInit /\ [][OrderNext]_vars

----------------------------------------------------------------------------
\* The construction of a chain: the factory and builder calls the caller
\* makes, on a machine whose runtime.NumCPU() is build.numCPU, before it calls
\* a collector.  WithThreads panics on a bad argument and the program ends.

MaxFilters == 1

NumCPUs == {1, 4, 200}
ThreadArgs == {0, 1, 2, 128, 129}
BuildSlices == {NilSlice, Slice(<<1>>)}
BuildFilters == {"inv"}

BuildInit ==
    /\ q = <<>>
    /\ build \in {[pc |-> "building", numCPU |-> cpu, withThreads |-> {}, last |-> NoCall] :
                    cpu \in NumCPUs}
    /\ order = NoOrder
    /\ NotStarted

BuildFromArray(d) ==
    /\ build.pc = "building"
    /\ q = <<>>
    /\ q' = <<FromArray(d, build.numCPU)>>
    /\ build' = [build EXCEPT !.last = [op |-> "FromArray", arg |-> 0, before |-> 0]]
    /\ UNCHANGED <<callerCtx, eg, failLog, producer, inputChan, supervisor, worker,
                   finalizer, errorChan, sinkLog, outputClosed, delivered, collector,
                   order>>

BuildFromChan ==
    /\ build.pc = "building"
    /\ q = <<>>
    /\ q' = <<FromChan("chan", build.numCPU)>>
    /\ build' = [build EXCEPT !.last = [op |-> "FromChan", arg |-> 0, before |-> 0]]
    /\ UNCHANGED <<callerCtx, eg, failLog, producer, inputChan, supervisor, worker,
                   finalizer, errorChan, sinkLog, outputClosed, delivered, collector,
                   order>>

BuildSelect(m) ==
    /\ build.pc = "building"
    /\ q # <<>>
    /\ Len(q) < MaxDepth
    /\ q' = Append(q, Select(m, Len(q), build.numCPU))
    /\ build' = [build EXCEPT !.last = [op |-> "Select", arg |-> 0, before |-> 0]]
    /\ UNCHANGED <<callerCtx, eg, failLog, producer, inputChan, supervisor, worker,
                   finalizer, errorChan, sinkLog, outputClosed, delivered, collector,
                   order>>

BuildSelectMany(m) ==
    /\ build.pc = "building"
    /\ q # <<>>
    /\ Len(q) < MaxDepth
    /\ q' = Append(q, SelectMany(m, Len(q), build.numCPU))
    /\ build' = [build EXCEPT !.last = [op |-> "SelectMany", arg |-> 0, before |-> 0]]
    /\ UNCHANGED <<callerCtx, eg, failLog, producer, inputChan, supervisor, worker,
                   finalizer, errorChan, sinkLog, outputClosed, delivered, collector,
                   order>>

BuildWhere(f) ==
    /\ build.pc = "building"
    /\ q # <<>>
    /\ Len(q[Len(q)].fnFilter) < MaxFilters
    /\ q' = [q EXCEPT ![Len(q)] = Where(@, f)]
    /\ build' = [build EXCEPT !.last = [op |-> "Where", arg |-> 0, before |-> 0]]
    /\ UNCHANGED <<callerCtx, eg, failLog, producer, inputChan, supervisor, worker,
                   finalizer, errorChan, sinkLog, outputClosed, delivered, collector,
                   order>>

BuildWithThreads(n) ==
    /\ build.pc = "building"
    /\ q # <<>>
    /\ q' = [q EXCEPT ![Len(q)] = WithThreads(@, n)]
    /\ build' = [build EXCEPT
                    !.pc = IF ThreadsPanics(n) THEN "panicked" ELSE @,
                    !.withThreads = IF ThreadsPanics(n) THEN @ ELSE @ \cup {Len(q)},
                    !.last = [op |-> "WithThreads", arg |-> n,
                              before |-> q[Len(q)].threads]]
    /\ UNCHANGED <<callerCtx, eg, failLog, producer, inputChan, supervisor, worker,
                   finalizer, errorChan, sinkLog, outputClosed, delivered, collector,
                   order>>

BuildNext ==
    \/ \E d \in BuildSlices : BuildFromArray(d)
    \/ BuildFromChan
    \/ \E m \in SelectFns : BuildSelect(m)
    \/ \E m \in SelectManyFns : BuildSelectMany(m)
    \/ \E f \in BuildFilters : BuildWhere(f)
    \/ \E n \in ThreadArgs : BuildWithThreads(n)

BuildSpec == BuildInit /\ [][BuildNext]_vars

----------------------------------------------------------------------------
\* Notions the properties below are stated with.

\* A filter or map function faulted in stage s.
IsPanic(err) == Len(err) = 3
Faulted(s) == \E k \in 1..Len(failLog[s]) : IsPanic(failLog[s][k])

\* Some goroutine of stage s returned an error.
Failed(s) == failLog[s] # <<>>

\* x passes all the filters (none of which faults before one rejects x).
PassesAll(fnFilter, x) ==
    \A k \in 1..Len(fnFilter) : ~FilterPanics(fnFilter[k], x) /\ FilterFn(fnFilter[k], x)

\* The filters or the map function fault on x.
FaultsOn(stage, x) ==
    \/ \E k \in 1..Len(stage.fnFilter) :
          /\ FilterPanics(stage.fnFilter[k], x)
          /\ \A j \in 1..(k - 1) : FilterFn(stage.fnFilter[j], x)
    \/ PassesAll(stage.fnFilter, x) /\ MapPanics(stage.fnMap, x)

\* The outputs of a fault-free stage for the inputs xs, in input order.
RECURSIVE ExpectedOut(_, _)
ExpectedOut(stage, xs) ==
    IF xs = <<>> THEN <<>>
    ELSE (IF PassesAll(stage.fnFilter, Head(xs)) /\ ~MapPanics(stage.fnMap, Head(xs))
          THEN MapFn(stage.fnMap, Head(xs)) ELSE <<>>) \o ExpectedOut(stage, Tail(xs))

RECURSIVE ExpectedSeq(_)
ExpectedSeq(s) ==
    ExpectedOut(q[s], IF s = 1 THEN q[1].inputData.elems ELSE ExpectedSeq(s - 1))

StageInputs(s) == IF s = 1 THEN q[1].inputData.elems ELSE ExpectedSeq(s - 1)

\* No callback of the pipeline faults on any item that can reach it.
FaultFree ==
    \A s \in Stages : \A k \in 1..Len(StageInputs(s)) : ~FaultsOn(q[s], StageInputs(s)[k])

RECURSIVE BagOfSeq(_)
BagOfSeq(xs) == IF xs = <<>> THEN EmptyBag ELSE SetToBag({Head(xs)}) (+) BagOfSeq(Tail(xs))

\* The caller has cancelled, or a goroutine of some stage has failed.
Troubled == callerDone \/ \E s \in Stages : Failed(s)

Returned_ToArray == collector.pc = "done"

----------------------------------------------------------------------------
\* C1: once the caller's context is cancelled or a goroutine of any stage has
\* failed, the outermost stage's output stream and error sink get closed: a
\* draining consumer is never left with channels still open and no goroutine
\* able to take a step.
C1_TroubledPipelineCloses ==
    (Troubled /\ collector.pc \in {"drain", "wait"})
        => \/ outputClosed[Depth] /\ errorChan[Depth].closed
           \/ ENABLED Step

\* C2: drain-then-wait never deadlocks: in a chain of two or more stages over
\* a finite source, with no faulting callback and no cancellation, ToArray
\* returns nil error; it is never stuck before that.
C2_DrainThenWaitReturns ==
    (Depth >= 2 /\ ~q[1].inputData.isNil /\ FaultFree /\ ~callerDone)
        => /\ Returned_ToArray => collector.err = Nil
           /\ Returned_ToArray \/ ENABLED Step

\* C3: no task leaks on teardown: no upstream worker is left blocked in its
\* send on the output stream when every downstream worker has returned.
C3_NoOrphanedSender ==
    \A s \in Stages \ {Depth} : \A j \in Threads(s) :
        worker[s][j].pc = "send" => \E i \in Threads(s + 1) : worker[s + 1][i].pc # "done"

\* C4: first error wins: the error sink receives at most one value, which is
\* the error of the first goroutine of the group to fail, it is sent before
\* the sink is closed, and with the caller's context not cancelled ToArray's
\* Wait returns exactly that error (nil when no goroutine failed).
C4_FirstErrorWins ==
    /\ \A s \in Stages :
        /\ Len(sinkLog[s]) <= 1
        /\ sinkLog[s] # <<>> => Failed(s) /\ sinkLog[s][1] = failLog[s][1]
        /\ (errorChan[s].closed /\ Failed(s)) => sinkLog[s] = <<failLog[s][1]>>
        /\ Len(errorChan[s].buf) <= 1
    /\ (Returned_ToArray /\ ~callerDone) =>
          collector.err = IF Failed(Depth) THEN failLog[Depth][1] ELSE Nil

C4_Witness ==
    /\ Returned_ToArray
    /\ ~callerDone
    /\ Len(failLog[Depth]) >= 2
    /\ failLog[Depth][2] # failLog[Depth][1]
    /\ collector.err = failLog[Depth][1]

\* C5: upstream errors surface downstream unchanged: when the first failure
\* of the leaf is a fault E, no downstream callback faults and the caller does
\* not cancel, ToArray returns E; it is never stuck before that.
C5_UpstreamErrorSurfaces ==
    (/\ Depth >= 2
     /\ ~callerDone
     /\ Failed(1) /\ IsPanic(failLog[1][1])
     /\ \A t \in Stages \ {1} : ~Faulted(t))
        => /\ Returned_ToArray => collector.err = failLog[1][1]
           /\ Returned_ToArray \/ ENABLED Step

\* C6: when a filter or map function faults, ToArray returns a non-nil error
\* and no data; it is never stuck before that.
C6_FaultSurfaces ==
    (\E s \in Stages : Faulted(s))
        => /\ Returned_ToArray => collector.err # Nil /\ collector.data.isNil
           /\ Returned_ToArray \/ ENABLED Step

\* C7: when the caller's context is cancelled before the consumer saw the
\* output stream closed, the Wait that follows the drain returns a
\* cancellation error, never nil.
C7_CancelledRunReturnsError ==
    (Returned_ToArray /\ callerCtx.beforeDrained) => collector.err # Nil

\* C8: once the cancellation context of a stage's Run is done, no worker
\* places a further item on the stage's output stream.
C8_NoOutputAfterDone ==
    [][\A s \in Stages : Done(s) => delivered'[s] = delivered[s]]_vars

\* C9: the output stream is closed no later than the error sink.
C9_OutputClosedFirst ==
    \A s \in Stages : errorChan[s].closed => outputClosed[s]

\* C9 as amended: the error sink is closed no later than the output stream.
C9_ErrorSinkClosedFirst ==
    \A s \in Stages : outputClosed[s] => errorChan[s].closed

C9_Witness ==
    \E s \in Stages : errorChan[s].closed /\ ~outputClosed[s] /\ sinkLog[s] # <<>>

\* C10: in a run without failure or cancellation, the items delivered on a
\* stage's output stream are among the map results of the inputs that pass all
\* the stage's filters, each at most as often as expected, and once the
\* output stream is closed they are exactly those.
C10_DeliveredIsFilteredMapped ==
    (~callerDone /\ \A t \in Stages : ~Failed(t)) =>
        \A s \in Stages :
            /\ delivered[s] \sqsubseteq BagOfSeq(ExpectedSeq(s))
            /\ outputClosed[s] => delivered[s] = BagOfSeq(ExpectedSeq(s))

C10_Witness ==
    /\ Depth = 2
    /\ ~callerDone /\ \A t \in Stages : ~Failed(t)
    /\ outputClosed[2]
    /\ q[1].threads = 2
    /\ q[1].fnFilter = <<"pos", "inv">>
    /\ q[1].inputData.elems = <<2, 1>>
    /\ q[2].fnMap = "rep"
    /\ delivered[1] = SetToBag({1})
    /\ delivered[2] = SetToBag({1, 2})

\* C11: a leaf built by FromArray over S and configured with one worker, with
\* or without filters, none of which faults, and never cancelled: ToArray
\* without comparator returns nil error and exactly the elements of S that
\* pass the filters, in the order of S; over a materialized S it is never
\* stuck before that.
C11_SingleWorkerKeepsInputOrder ==
    (Depth = 1 /\ q[1].threads = 1 /\ FaultFree /\ ~callerDone)
        => /\ Returned_ToArray =>
                /\ collector.err = Nil
                /\ collector.data = Slice(ExpectedSeq(1))
           /\ ~q[1].inputData.isNil => (Returned_ToArray \/ ENABLED Step)

C11_Witness ==
    /\ Depth = 1 /\ q[1].threads = 1 /\ ~callerDone
    /\ q[1].fnFilter = <<>>
    /\ q[1].inputData.elems = <<2, 1>>
    /\ Returned_ToArray
    /\ collector.err = Nil
    /\ collector.data = Slice(<<2, 1>>)

\* C12: Select(f, FromArray(S).WithThreads(1).Where(P)) with no WithThreads
\* call on the Select stage, no faulting callback and no cancellation: ToArray
\* without comparator returns nil error and the f(x) of the x of S that pass
\* P, in the order of S, under every interleaving of the Select stage's
\* workers.
C12_SelectKeepsInputOrder ==
    (/\ Depth = 2
     /\ q[1].threads = 1
     /\ q[2].fnMap \in SelectFns
     /\ 2 \notin build.withThreads
     /\ FaultFree /\ ~callerDone
     /\ Returned_ToArray)
        => /\ collector.err = Nil
           /\ collector.data = Slice(ExpectedSeq(2))

\* The comparator composed of the specifications, as the documentation
\* states it: the first specification whose keys differ decides, reversed
\* when it is descending; zero when no specification tells the items apart.
ComposedCompare(orderables, a, b) ==
    LET differ == {k \in 1..Len(orderables) :
                      KeyOf(orderables[k].keyGetter, a) # KeyOf(orderables[k].keyGetter, b)}
    IN  IF differ = {} THEN 0
        ELSE LET k == CHOOSE k \in differ : \A j \in differ : k <= j
                 less == KeyOf(orderables[k].keyGetter, a) < KeyOf(orderables[k].keyGetter, b)
             IN  IF less = ~orderables[k].desc THEN -1 ELSE 1

\* C13: for every delivery order, ToArray with comparator specifications
\* returns a permutation of the delivered items that is sorted under the
\* composed comparator; with zero specifications the delivery order is left
\* untouched.
C13_SortedPermutation ==
    order.pc = "done" =>
        /\ BagOfSeq(order.result) = BagOfSeq(order.data)
        /\ \A i, j \in 1..Len(order.result) :
              i < j => ComposedCompare(order.orderables, order.result[i], order.result[j]) <= 0
        /\ order.orderables = <<>> => order.result = order.data

C13_Witness ==
    /\ order.pc = "done"
    /\ order.data = <<0, 1, 2>>
    /\ order.orderables = <<OrderDesc("mod2"), OrderAsc("self")>>
    /\ order.result = <<1, 0, 2>>

\* The sum of the seed and the items of xs.
RECURSIVE SumFrom(_, _)
SumFrom(seed, xs) == IF xs = <<>> THEN seed ELSE SumFrom(seed + Head(xs), Tail(xs))

\* C14: in a run without failure or cancellation, Reduce with the addition as
\* accumulator returns nil error and the seed plus every item the outermost
\* stage is expected to deliver, each counted once, whatever the delivery
\* order and the worker counts.
C14_ReduceFoldsEveryItemOnce ==
    (Returned_ToArray /\ ~callerDone /\ \A t \in Stages : ~Failed(t))
        => /\ collector.err = Nil
           /\ collector.reduced = SumFrom(ReduceStart, ExpectedSeq(Depth))
           /\ collector.reduced = SumFrom(ReduceStart, collector.output)

C14_Witness ==
    /\ Returned_ToArray /\ ~callerDone /\ \A t \in Stages : ~Failed(t)
    /\ Depth = 1
    /\ q[1].threads = 2
    /\ q[1].inputData.elems = <<1, 2>>
    /\ collector.output = <<2, 1>>
    /\ collector.reduced = 3
    /\ collector.err = Nil

\* The extracted values of the items of xs whose extracted key is k.
RECURSIVE ValuesOfKey(_, _)
ValuesOfKey(xs, k) ==
    IF xs = <<>> THEN <<>>
    ELSE (IF KeyGetter(Head(xs)) = k THEN <<ValueGetter(Head(xs))>> ELSE <<>>)
         \o ValuesOfKey(Tail(xs), k)

\* C15: in a run without failure or cancellation, GroupBy returns a map
\* whose keys are exactly the distinct extracted keys of the items the
\* outermost stage is expected to deliver, and the bucket of each key holds
\* the extracted value of each item with that key exactly once.
C15_GroupByPartitionsItems ==
    (Returned_ToArray /\ ~callerDone /\ \A t \in Stages : ~Failed(t))
        => LET xs == ExpectedSeq(Depth) IN
           /\ DOMAIN collector.grouped = {KeyGetter(xs[k]) : k \in 1..Len(xs)}
           /\ \A key \in DOMAIN collector.grouped :
                 BagOfSeq(collector.grouped[key]) = BagOfSeq(ValuesOfKey(xs, key))

C15_Witness ==
    /\ Returned_ToArray /\ ~callerDone /\ \A t \in Stages : ~Failed(t)
    /\ Depth = 1
    /\ q[1].inputData.elems = <<0, 2>>
    /\ q[1].fnFilter = <<>>
    /\ DOMAIN collector.grouped = {0}
    /\ collector.grouped[0] = <<2, 0>>

\* C16: when Wait returns a non-nil error (a fault or a cancellation),
\* Reduce returns with it the accumulator folded over exactly the items it
\* received before the output stream closed, GroupBy the map of exactly
\* those items, and ToArray no data.
C16_PartialResultOnError ==
    (Returned_ToArray /\ collector.err # Nil)
        => LET xs == collector.output IN
           /\ BagOfSeq(xs) = delivered[Depth]
           /\ collector.reduced = SumFrom(ReduceStart, xs)
           /\ DOMAIN collector.grouped = {KeyGetter(xs[k]) : k \in 1..Len(xs)}
           /\ \A key \in DOMAIN collector.grouped :
                 collector.grouped[key] = ValuesOfKey(xs, key)
           /\ collector.data.isNil

C16_Witness ==
    /\ Returned_ToArray
    /\ IsPanic(collector.err)
    /\ collector.output = <<1>>
    /\ collector.reduced = 1
    /\ DOMAIN collector.grouped = {1}
    /\ collector.grouped[1] = <<1>>
    /\ collector.data.isNil

\* C17: WithThreads(n) with n outside [1, 128] ends the program with a fatal
\* error and leaves the stage's worker count as it was; with n inside it sets
\* the worker count to n and is the only call that can be fatal; after any
\* sequence of factory and builder calls the worker count of every stage
\* lies in [1, 128].
C17_ThreadsWithinLimits ==
    /\ \A s \in 1..Len(q) : q[s].threads \in 1..128
    /\ build.last.op = "WithThreads" =>
          IF build.last.arg \in 1..128
          THEN build.pc # "panicked" /\ q[Len(q)].threads = build.last.arg
          ELSE build.pc = "panicked" /\ q[Len(q)].threads = build.last.before
    /\ build.pc = "panicked" => build.last.op = "WithThreads"

C17_Witness ==
    /\ build.pc = "panicked"
    /\ build.last = [op |-> "WithThreads", arg |-> 129, before |-> 2]
    /\ Len(q) = 2
    /\ q[2].threads = 2

\* C18: a stage built by any factory on which WithThreads was never called
\* has the worker count min(max(NumCPU, 1), 128).
C18_DefaultThreadsIsClampedNumCPU ==
    \A s \in 1..Len(q) :
        s \notin build.withThreads => q[s].threads = Min(Max(build.numCPU, 1), 128)

\* C19: no goroutine ever sends on a closed channel: a stage's output stream
\* is closed only when every worker of the stage has returned, the input
\* channel of a materialized sequence is closed only by its producer when it
\* returns, and the finalizer's single push onto the error sink finds the
\* sink open with its slot free, so it never blocks.
C19_NoSendOnClosedChannel ==
    /\ \A s \in Stages :
          /\ outputClosed[s] => \A i \in Threads(s) : worker[s][i].pc = "done"
          /\ finalizer[s] \in {"off", "wait"} =>
                ~errorChan[s].closed /\ errorChan[s].buf = <<>> /\ sinkLog[s] = <<>>
          /\ (finalizer[s] = "wait" /\ GroupIdle(s)) => ENABLED FinalizerWait(s)
          /\ Len(sinkLog[s]) <= 1
    /\ inputChan.closed => producer.pc = "done"
    /\ producer.pc = "done" => inputChan.closed

C19_Witness ==
    /\ Depth = 2
    /\ outputClosed[1] /\ outputClosed[2]
    /\ inputChan.closed
    /\ delivered[1] # EmptyBag
    /\ delivered[2] # EmptyBag
    /\ sinkLog[2] # <<>>
    /\ errorChan[2].closed

\* C20: a leaf built by FromArray over a sequence with no elements
\* (zero-length or nil), run with a context that is never cancelled,
\* terminates: no item is delivered, ToArray returns nil error and no
\* elements, and it is never stuck before that.
C20_EmptyLeafTerminates ==
    (Depth = 1 /\ q[1].inputData.elems = <<>> /\ ~callerDone)
        => /\ delivered[1] = EmptyBag
           /\ Returned_ToArray => collector.err = Nil /\ collector.data = Slice(<<>>)
           /\ Returned_ToArray \/ ENABLED Step

====
